---- MODULE Spec2Model ----
(***************************************************************************)
(* get-my-history (src/main.rs): one run of the program.  The run loads    *)
(* the archive file, walks the paginated statuses endpoint, merges and     *)
(* sorts, and writes the result to the archive file or to standard output. *)
(*                                                                         *)
(* Strings are modelled by what the code does with them:                   *)
(*  - a status is a record [id, created_at]; each field is the rank of its *)
(*    string value in the lexicographic order of str::cmp, or Missing when *)
(*    the JSON field is absent or not a string;                            *)
(*  - a Link header and a URL are sequences of tokens; the literal         *)
(*    rel="next" / rel="prev" is one token, so that `contains` is token    *)
(*    membership, and "x-" followed by it is an attribute x-rel="..."      *)
(*    that holds the literal as a substring.                               *)
(***************************************************************************)
EXTENDS Naturals, Sequences, FiniteSets

VARIABLES
    file_arg,        \* args.file is Some(path)
    update_in_place, \* args.update_in_place
    disk,            \* content of the file at args.file
    disk0,           \* its content when the run started
    stdout,          \* what the run has written to standard output
    pc,              \* position of main
    err,             \* why the run failed ("" while it has not)
    statuses,        \* main's statuses vector
    max_id,          \* main's max_id: Option<String>
    has_more,        \* get_statuses locals
    url,
    params,
    dir,
    result,
    hdr,             \* the Link header of the response whose body is being read
    requests,        \* every statuses request sent: [url, params]
    followed,        \* every next_url the loop took from a Link header
    served,          \* every record of every page body parsed, in order
    events,          \* file and network events of the run, in order
    answers,         \* the answers the remote gave, when the remote is kept unchanged
    prior            \* the archive an earlier run printed against the same remote

vars == <<file_arg, update_in_place, disk, disk0, stdout, pc, err, statuses,
          max_id, has_more, url, params, dir, result, hdr, requests, followed,
          served, events, answers, prior>>

(***************************************************************************)
(* Bounds.                                                                 *)
(***************************************************************************)
MaxArchive == 2   \* records in the archive file at the start
MaxPage == 1      \* records in one page body
MaxReq == 2       \* statuses requests of one run

(***************************************************************************)
(* Values.                                                                 *)
(***************************************************************************)
Missing == 0
NoneV == [some |-> FALSE]
Some(x) == [some |-> TRUE, val |-> x]

Rec(i, t) == [id |-> i, created_at |-> t]
\* two ids, two timestamps; a tie on created_at; a record without a string
\* created_at and one without a string id
ArchiveRecs == {Rec(1, 1), Rec(2, 2), Rec(2, 1), Rec(1, Missing), Rec(Missing, 1)}
FetchRecs == {Rec(1, 1), Rec(2, 2)}

RECURSIVE SeqsUpTo(_, _)
SeqsUpTo(S, n) ==
    IF n = 0 THEN {<<>>}
    ELSE LET shorter == SeqsUpTo(S, n - 1)
         IN  shorter \cup {Append(s, x) : s \in {q \in shorter : Len(q) = n - 1}, x \in S}

\* the file: it cannot be opened, is not JSON, is JSON but no array, is an
\* array of records, or (after a write that did not complete) a truncated
\* text: some proper prefix, possibly empty, of the pretty-printed output
File(k, rs) == [kind |-> k, recs |-> rs]
Truncated == File("partial", <<>>)
DiskContents ==
    {File(k, <<>>) : k \in {"missing", "notjson", "notarray"}}
    \cup {File("array", rs) : rs \in SeqsUpTo(ArchiveRecs, MaxArchive)}

(***************************************************************************)
(* parse_link (main.rs 86-104) on token sequences.                         *)
(***************************************************************************)
HOST == <<"https://h">>                       \* args.host
STATUSES_PATH == <<"/api/v1/accounts/me/statuses">>

\* format!("rel=\"{}\"", dir)
RelTok(d) == IF d = "next" THEN "rel=\"next\"" ELSE "rel=\"prev\""

Contains(s, tok) == \E i \in 1..Len(s) : s[i] = tok

\* str::split: the pieces between the separators, one piece when there is none
RECURSIVE Split(_, _)
Split(s, sep) ==
    IF ~Contains(s, sep) THEN <<s>>
    ELSE LET i == CHOOSE k \in 1..Len(s) :
                      s[k] = sep /\ \A j \in 1..(k - 1) : s[j] # sep
         IN  <<SubSeq(s, 1, i - 1)>> \o Split(SubSeq(s, i + 1, Len(s)), sep)

RECURSIVE TrimStart(_)
TrimStart(s) == IF s # <<>> /\ Head(s) = " " THEN TrimStart(Tail(s)) ELSE s
RECURSIVE TrimEnd(_)
TrimEnd(s) ==
    IF s # <<>> /\ s[Len(s)] = " " THEN TrimEnd(SubSeq(s, 1, Len(s) - 1)) ELSE s
Trim(s) == TrimEnd(TrimStart(s))

StripPrefix(s, c) == IF s # <<>> /\ Head(s) = c THEN Some(Tail(s)) ELSE NoneV
StripSuffix(s, c) ==
    IF s # <<>> /\ s[Len(s)] = c THEN Some(SubSeq(s, 1, Len(s) - 1)) ELSE NoneV

\* HeaderValue::to_str fails on a byte that is not visible ASCII
ToStrOk(h) == ~Contains(h, "\\x80")

\* mutant of SegmentUrl: a first token without angle brackets is taken as it is
SegmentUrl_lenient(link_part) ==
    LET first == Trim(Head(Split(link_part, ";")))
        a == StripPrefix(first, "<")
    IN  IF a.some THEN StripSuffix(a.val, ">") ELSE Some(first)

\* link_part.split(';').next().and_then(trim, strip_prefix '<').and_then(strip_suffix '>')
SegmentUrl(link_part) ==
    LET first == Trim(Head(Split(link_part, ";")))
        a == StripPrefix(first, "<")
    IN  IF a.some THEN StripSuffix(a.val, ">") ELSE NoneV

RECURSIVE FirstLink(_, _)
FirstLink(parts, rel) ==
    IF parts = <<>> THEN NoneV
    ELSE IF Contains(Head(parts), rel) /\ SegmentUrl(Head(parts)).some
         THEN SegmentUrl(Head(parts))
         ELSE FirstLink(Tail(parts), rel)

parse_link(header, d) ==
    IF ToStrOk(header) THEN FirstLink(Split(header, ","), RelTok(d)) ELSE NoneV

\* str::replace(host, ""): every occurrence of pat removed
RECURSIVE Replace(_, _)
Replace(s, pat) ==
    IF Len(s) < Len(pat) \/ pat = <<>> THEN s
    ELSE IF SubSeq(s, 1, Len(pat)) = pat
         THEN Replace(SubSeq(s, Len(pat) + 1, Len(s)), pat)
         ELSE <<Head(s)>> \o Replace(Tail(s), pat)

(***************************************************************************)
(* The Link headers a response may carry.                                  *)
(***************************************************************************)
U1 == HOST \o <<"/p1">>
U2 == HOST \o <<"/p2">>
Attr(a) == <<";", " ", a>>
LinkValue(u, attrs) == <<"<">> \o u \o <<">">> \o attrs
Join2(a, b) == a \o <<",", " ">> \o b

SegNext == LinkValue(U1, Attr(RelTok("next")))
SegPrev == LinkValue(U2, Attr(RelTok("prev")))
SegNoRel == LinkValue(U1, <<>>)
SegBare == U1 \o Attr(RelTok("prev"))       \* no angle brackets
\* <U1>; rel="next"; x-rel="prev": a next link whose extension attribute
\* holds the literal rel="prev"
SegExt == LinkValue(U1, Attr(RelTok("next")) \o <<";", " ", "x-", RelTok("prev")>>)
SegNonAscii == SegPrev \o Attr("\\x80")

LinkHeaders ==
    {NoneV} \cup
    {Some(h) : h \in {SegNext, SegPrev, Join2(SegNext, SegPrev),
                      Join2(SegPrev, SegNext), SegNoRel, SegBare,
                      Join2(SegBare, SegPrev), Join2(SegExt, SegPrev), SegNonAscii}}

(***************************************************************************)
(* compare_key (158-160) and slice::sort_by, a stable sort.                *)
(***************************************************************************)
compare_key(key, a, b) ==
    IF a[key] < b[key] THEN "Less"
    ELSE IF a[key] = b[key] THEN "Equal" ELSE "Greater"

\* the closures of lines 183 and 199
Cmp(desc, a, b) ==
    IF desc THEN compare_key("created_at", b, a) ELSE compare_key("created_at", a, b)

\* mutant of Insert: x goes before its equals (a sort that is not stable)
RECURSIVE Insert_before_equals(_, _, _)
Insert_before_equals(x, s, desc) ==
    IF s = <<>> THEN <<x>>
    ELSE IF Cmp(desc, x, Head(s)) # "Greater" THEN <<x>> \o s
         ELSE <<Head(s)>> \o Insert_before_equals(x, Tail(s), desc)

\* x goes before the first element it is Less than, after its equals
RECURSIVE Insert(_, _, _)
Insert(x, s, desc) ==
    IF s = <<>> THEN <<x>>
    ELSE IF Cmp(desc, x, Head(s)) = "Less" THEN <<x>> \o s
         ELSE <<Head(s)>> \o Insert(x, Tail(s), desc)

RECURSIVE sort_by(_, _)
sort_by(s, desc) ==
    IF s = <<>> THEN <<>>
    ELSE Insert(s[Len(s)], sort_by(SubSeq(s, 1, Len(s) - 1), desc), desc)

\* the comparator unwraps as_str(): it panics on a record without a string
\* created_at; a slice of fewer than two elements is never compared
SortPanics(s) == Len(s) >= 2 /\ \E i \in 1..Len(s) : s[i].created_at = Missing

(***************************************************************************)
(* The run.                                                                *)
(***************************************************************************)
Init ==
    /\ file_arg \in BOOLEAN
    /\ update_in_place \in BOOLEAN
    /\ disk \in (IF file_arg THEN DiskContents ELSE {File("missing", <<>>)})
    /\ disk0 = disk
    /\ stdout = File("empty", <<>>)
    /\ pc = "token"
    /\ err = ""
    /\ statuses = <<>>
    /\ max_id = NoneV
    /\ has_more = FALSE
    /\ url = <<>>
    /\ params = <<>>
    /\ dir = ""
    /\ result = <<>>
    /\ hdr = NoneV
    /\ requests = <<>>
    /\ followed = <<>>
    /\ served = <<>>
    /\ events = <<>>
    /\ answers = <<>>
    /\ prior = NoneV

\* an error returned through `?` to main's caller, or a panic
Fail(e) == pc' = "failed" /\ err' = e

\* get_access_token (31-57), called at 168
GetAccessToken ==
    /\ pc = "token"
    /\ \E outcome \in {"token", "exchanged", "token_http_error", "token_no_field",
                          "no_credentials"} :
          IF outcome \in {"token", "exchanged"}
          THEN pc' = "account" /\ err' = err
          ELSE Fail(outcome)
    /\ UNCHANGED <<file_arg, update_in_place, disk, disk0, stdout, statuses, max_id,
                   has_more, url, params, dir, result, hdr, requests, followed, served, events>>

\* get_account_id (69-84), called at 170-174 unless --account-id is given
GetAccountId ==
    /\ pc = "account"
    /\ \E outcome \in {"given", "verified", "unprocessable", "account_http_error",
                          "no_id"} :
          IF outcome \in {"given", "verified"}
          THEN pc' = "load" /\ err' = err
          ELSE Fail(outcome)
    /\ UNCHANGED <<file_arg, update_in_place, disk, disk0, stdout, statuses, max_id,
                   has_more, url, params, dir, result, hdr, requests, followed, served, events>>

\* mutant of LoadedStatuses: the archive is sorted oldest first
LoadedStatuses_ascending(recs) == sort_by(recs, FALSE)
\* lines 183-186 on the parsed array
LoadedStatuses(recs) == sort_by(recs, TRUE)
Cursor(sorted) == IF sorted = <<>> THEN NoneV ELSE Some(sorted[1].id)

\* mutant of LoadArchive: update-in-place without a path is rejected at once
LoadArchive_requires_file ==
    /\ pc = "load"
    /\ IF ~file_arg
       THEN IF update_in_place
            THEN Fail("no_file") /\ UNCHANGED <<statuses, max_id, events>>
            ELSE /\ max_id' = NoneV
                 /\ pc' = "call"
                 /\ UNCHANGED <<statuses, err, events>>
       ELSE /\ events' = Append(events, "read")
            /\ IF disk.kind = "missing"
               THEN Fail("open") /\ UNCHANGED <<statuses, max_id>>
               ELSE IF disk.kind = "notjson"
               THEN Fail("archive_json") /\ UNCHANGED <<statuses, max_id>>
               ELSE IF disk.kind # "array"
               THEN Fail("archive_not_array") /\ UNCHANGED <<statuses, max_id>>
               ELSE IF SortPanics(disk.recs)
               THEN Fail("archive_created_at") /\ UNCHANGED <<statuses, max_id>>
               ELSE LET sorted == LoadedStatuses(disk.recs)
                    IN  IF sorted # <<>> /\ sorted[1].id = Missing
                        THEN Fail("archive_id") /\ UNCHANGED <<statuses, max_id>>
                        ELSE /\ statuses' = sorted
                             /\ max_id' = Cursor(sorted)
                             /\ pc' = "call"
                             /\ err' = err
    /\ UNCHANGED <<file_arg, update_in_place, disk, disk0, stdout, has_more, url,
                   params, dir, result, hdr, requests, followed, served>>

\* lines 176-189
LoadArchive ==
    /\ pc = "load"
    /\ IF ~file_arg
       THEN /\ max_id' = NoneV
            /\ pc' = "call"
            /\ UNCHANGED <<statuses, err, events>>
       ELSE /\ events' = Append(events, "read")
            /\ IF disk.kind = "missing"
               THEN Fail("open") /\ UNCHANGED <<statuses, max_id>>
               ELSE IF disk.kind = "notjson"
               THEN Fail("archive_json") /\ UNCHANGED <<statuses, max_id>>
               ELSE IF disk.kind # "array"
               THEN Fail("archive_not_array") /\ UNCHANGED <<statuses, max_id>>
               ELSE IF SortPanics(disk.recs)
               THEN Fail("archive_created_at") /\ UNCHANGED <<statuses, max_id>>
               ELSE LET sorted == LoadedStatuses(disk.recs)
                    IN  IF sorted # <<>> /\ sorted[1].id = Missing
                        THEN Fail("archive_id") /\ UNCHANGED <<statuses, max_id>>
                        ELSE /\ statuses' = sorted
                             /\ max_id' = Cursor(sorted)
                             /\ pc' = "call"
                             /\ err' = err
    /\ UNCHANGED <<file_arg, update_in_place, disk, disk0, stdout, has_more, url,
                   params, dir, result, hdr, requests, followed, served>>

\* mutant of InitDir: the branch on the cursor is lost
InitDir_always_prev(min_id) == "prev"
\* mutant of InitParams: since_id is sent even without a cursor
InitParams_always(min_id) ==
    <<<<"since_id", IF min_id.some THEN min_id.val ELSE Missing>>>>

\* lines 120-124
InitDir(min_id) == IF min_id.some THEN "prev" ELSE "next"
InitParams(min_id) == IF min_id.some THEN <<<<"since_id", min_id.val>>>> ELSE <<>>

\* mutant of GetStatusesInit: the output file is created before the fetch
GetStatusesInit_creates_first ==
    /\ pc = "call"
    /\ has_more' = TRUE
    /\ url' = STATUSES_PATH
    /\ params' = InitParams(max_id)
    /\ dir' = InitDir(max_id)
    /\ result' = <<>>
    /\ pc' = "send"
    /\ IF update_in_place /\ file_arg
       THEN disk' = Truncated /\ events' = Append(events, "create")
       ELSE UNCHANGED <<disk, events>>
    /\ UNCHANGED <<file_arg, update_in_place, disk0, stdout, err, statuses,
                   max_id, hdr, requests, followed, served>>

\* get_statuses up to its loop (112-126), called at 193 with max_id
GetStatusesInit ==
    /\ pc = "call"
    /\ has_more' = TRUE
    /\ url' = STATUSES_PATH
    /\ params' = InitParams(max_id)
    /\ dir' = InitDir(max_id)
    /\ result' = <<>>
    /\ pc' = "send"
    /\ UNCHANGED <<file_arg, update_in_place, disk, disk0, stdout, err, statuses,
                   max_id, hdr, requests, followed, served, events>>

\* mutant of FollowedLink: the relation looked for is always next
FollowedLink_always_next(h, d) == IF h.some THEN parse_link(h.val, "next") ELSE NoneV
\* mutant of FollowedLink: the first angle-bracketed URL, whatever its relation
FollowedLink_any_relation(h, d) ==
    IF h.some /\ ToStrOk(h.val) THEN SegmentUrl(Head(Split(h.val, ","))) ELSE NoneV

\* lines 141-144 and 146-148
FollowedLink(h, d) == IF h.some THEN parse_link(h.val, d) ELSE NoneV
\* mutant of NextUrl: the host prefix is kept
NextUrl_keeps_host(next_url) == next_url
NextUrl(next_url) == Replace(next_url, HOST)

\* mutant of SendRequest: params is not cleared when a link is followed
SendRequest_keeps_params ==
    /\ pc = "send"
    /\ has_more
    /\ Len(requests) < MaxReq
    /\ requests' = Append(requests, [url |-> HOST \o url, params |-> params])
    /\ events' = Append(events, "request")
    /\ \E outcome \in {"ok", "transport_error", "http_status"} :
          IF outcome # "ok"
          THEN Fail(outcome) /\ UNCHANGED <<has_more, url, hdr, followed>>
          ELSE \E h \in LinkHeaders :
                  LET next_url == FollowedLink(h, dir)
                  IN  /\ hdr' = h
                      /\ has_more' = next_url.some
                      /\ url' = IF next_url.some THEN NextUrl(next_url.val) ELSE url
                      /\ followed' = IF next_url.some
                                     THEN Append(followed, next_url.val)
                                     ELSE followed
                      /\ pc' = "body"
                      /\ err' = err
    /\ UNCHANGED <<file_arg, update_in_place, disk, disk0, stdout, statuses, max_id,
                   dir, result, served, params>>

\* mutant of SendRequest: a link to a URL already requested is not followed
SendRequest_visited_check ==
    /\ pc = "send"
    /\ has_more
    /\ Len(requests) < MaxReq
    /\ requests' = Append(requests, [url |-> HOST \o url, params |-> params])
    /\ events' = Append(events, "request")
    /\ \E outcome \in {"ok", "transport_error", "http_status"} :
          IF outcome # "ok"
          THEN Fail(outcome) /\ UNCHANGED <<has_more, url, params, hdr, followed>>
          ELSE \E h \in LinkHeaders :
                  LET found == FollowedLink(h, dir)
                      next_url == IF found.some
                                     /\ \E k \in 1..Len(requests') :
                                           requests'[k].url = found.val
                                  THEN NoneV ELSE found
                  IN  /\ hdr' = h
                      /\ has_more' = next_url.some
                      /\ url' = IF next_url.some THEN NextUrl(next_url.val) ELSE url
                      /\ params' = IF next_url.some THEN <<>> ELSE params
                      /\ followed' = IF next_url.some
                                     THEN Append(followed, next_url.val)
                                     ELSE followed
                      /\ pc' = "body"
                      /\ err' = err
    /\ UNCHANGED <<file_arg, update_in_place, disk, disk0, stdout, statuses, max_id,
                   dir, result, served>>

\* one pass of the loop up to the body (128-149): the request, its status,
\* the Link header
SendRequest ==
    /\ pc = "send"
    /\ has_more
    /\ Len(requests) < MaxReq
    /\ requests' = Append(requests, [url |-> HOST \o url, params |-> params])
    /\ events' = Append(events, "request")
    /\ \E outcome \in {"ok", "transport_error", "http_status"} :
          IF outcome # "ok"
          THEN Fail(outcome) /\ UNCHANGED <<has_more, url, params, hdr, followed>>
          ELSE \E h \in LinkHeaders :
                  LET next_url == FollowedLink(h, dir)
                  IN  /\ hdr' = h
                      /\ has_more' = next_url.some
                      /\ url' = IF next_url.some THEN NextUrl(next_url.val) ELSE url
                      /\ params' = IF next_url.some THEN <<>> ELSE params
                      /\ followed' = IF next_url.some
                                     THEN Append(followed, next_url.val)
                                     ELSE followed
                      /\ pc' = "body"
                      /\ err' = err
    /\ UNCHANGED <<file_arg, update_in_place, disk, disk0, stdout, statuses, max_id,
                   dir, result, served>>

Bodies ==
    {File(k, <<>>) : k \in {"notjson", "notarray"}}
    \cup {File("array", rs) : rs \in SeqsUpTo(FetchRecs, MaxPage)}

\* mutant of ReadBody: the pages are appended to main's vector as they come
ReadBody_into_statuses ==
    /\ pc = "body"
    /\ \E body \in Bodies :
          IF body.kind \in {"notjson", "notarray"}
          THEN /\ Fail(IF body.kind = "notjson" THEN "body_json" ELSE "body_not_array")
               /\ hdr' = NoneV
               /\ UNCHANGED <<result, served, events, statuses>>
          ELSE /\ result' = result \o body.recs
               /\ statuses' = statuses \o body.recs
               /\ served' = served \o body.recs
               /\ events' = Append(events, "page")
               /\ pc' = IF has_more THEN "send" ELSE "merge"
               /\ hdr' = NoneV
               /\ err' = err
    /\ UNCHANGED <<file_arg, update_in_place, disk, disk0, stdout, max_id,
                   has_more, url, params, dir, requests, followed>>

\* the body (151-152), then the loop test and the return (128, 155); the
\* response, and with it the header, is consumed by the step
ReadBody ==
    /\ pc = "body"
    /\ \E body \in Bodies :
          IF body.kind = "notjson"
          THEN Fail("body_json") /\ hdr' = NoneV /\ UNCHANGED <<result, served, events>>
          ELSE IF body.kind = "notarray"
          THEN Fail("body_not_array") /\ hdr' = NoneV /\ UNCHANGED <<result, served, events>>
          ELSE /\ result' = result \o body.recs
               /\ served' = served \o body.recs
               /\ events' = Append(events, "page")
               /\ pc' = IF has_more THEN "send" ELSE "merge"
               /\ hdr' = NoneV
               /\ err' = err
    /\ UNCHANGED <<file_arg, update_in_place, disk, disk0, stdout, statuses, max_id,
                   has_more, url, params, dir, requests, followed>>

\* mutant of merge: the fetched records replace the vector instead of
\* extending it
merge_replacing(existing, fetched) == sort_by(fetched, FALSE)

\* mutant of merge: the fetched records are appended and the sort is left out
merge_unsorted(existing, fetched) == existing \o fetched
\* lines 193 and 199: extend, then sort ascending
merge(existing, fetched) == sort_by(existing \o fetched, FALSE)

\* mutant of Merge: the records pass through a hash map, whose iteration
\* order differs from run to run
Merge_hashed ==
    /\ pc = "merge"
    /\ IF SortPanics(statuses \o result)
       THEN Fail("merge_created_at") /\ UNCHANGED statuses
       ELSE /\ LET all == statuses \o result
               IN  \E s \in SeqsUpTo({all[i] : i \in 1..Len(all)}, Len(all)) :
                      /\ Len(s) = Len(all)
                      /\ \A i \in 1..Len(all) :
                            Cardinality({j \in 1..Len(s) : s[j] = all[i]})
                               = Cardinality({j \in 1..Len(all) : all[j] = all[i]})
                      /\ statuses' = s
            /\ pc' = "open"
            /\ err' = err
    /\ hdr' = NoneV
    /\ UNCHANGED <<file_arg, update_in_place, disk, disk0, stdout, max_id, has_more,
                   url, params, dir, result, requests, followed, served, events>>

\* lines 193-200
Merge ==
    /\ pc = "merge"
    /\ IF SortPanics(statuses \o result)
       THEN Fail("merge_created_at") /\ UNCHANGED statuses
       ELSE /\ statuses' = merge(statuses, result)
            /\ pc' = "open"
            /\ err' = err
    /\ hdr' = NoneV
    /\ UNCHANGED <<file_arg, update_in_place, disk, disk0, stdout, max_id, has_more,
                   url, params, dir, result, requests, followed, served, events>>

\* mutant of OpenWriter: the file is the output whenever a path is given
OpenWriter_by_file ==
    /\ pc = "open"
    /\ IF ~file_arg
       THEN IF update_in_place
            THEN Fail("no_file") /\ UNCHANGED <<disk, events>>
            ELSE pc' = "towriter" /\ UNCHANGED <<disk, err, events>>
       ELSE \E created \in BOOLEAN :
               /\ events' = Append(events, "create")
               /\ IF created
                  THEN disk' = Truncated /\ pc' = "towriter" /\ err' = err
                  ELSE Fail("create") /\ UNCHANGED disk
    /\ UNCHANGED <<file_arg, update_in_place, disk0, stdout, statuses, max_id,
                   has_more, url, params, dir, result, hdr, requests, followed,
                   served>>

\* lines 202-206: File::create truncates the file it opens
OpenWriter ==
    /\ pc = "open"
    /\ IF ~update_in_place
       THEN pc' = "towriter" /\ UNCHANGED <<disk, err, events>>
       ELSE IF ~file_arg
       THEN Fail("no_file") /\ UNCHANGED <<disk, events>>
       ELSE \E created \in BOOLEAN :
               /\ events' = Append(events, "create")
               /\ IF created
                  THEN disk' = Truncated /\ pc' = "towriter" /\ err' = err
                  ELSE Fail("create") /\ UNCHANGED disk
    /\ UNCHANGED <<file_arg, update_in_place, disk0, stdout, statuses, max_id,
                   has_more, url, params, dir, result, hdr, requests, followed,
                   served>>

\* line 208, then the writer is dropped (210).  "ok": all of the output is
\* written.  "io_error": a write fails part of the way.  "lost": the output
\* stays in the BufWriter, whose drop ignores the error of its flush.
ToWriter ==
    /\ pc = "towriter"
    /\ \E outcome \in {"ok", "io_error", "lost"} :
          /\ outcome = "lost" => update_in_place
          /\ LET got == IF outcome = "ok" THEN File("array", statuses) ELSE Truncated
             IN  IF update_in_place
                 THEN disk' = got /\ UNCHANGED stdout
                 ELSE stdout' = got /\ UNCHANGED disk
          /\ IF outcome = "io_error" THEN Fail("write") ELSE pc' = "done" /\ err' = err
    /\ events' = Append(events, "write")
    /\ UNCHANGED <<file_arg, update_in_place, disk0, statuses, max_id, has_more, url,
                   params, dir, result, hdr, requests, followed, served>>

\* one run against a remote that may change between requests: nothing is
\* kept of its answers
OneRun == UNCHANGED <<answers, prior>>

Next ==
    \/ GetAccessToken /\ OneRun
    \/ GetAccountId /\ OneRun
    \/ LoadArchive /\ OneRun
    \/ GetStatusesInit /\ OneRun
    \/ SendRequest /\ OneRun
    \/ ReadBody /\ OneRun
    \/ Merge /\ OneRun
    \/ OpenWriter /\ OneRun
    \/ ToWriter /\ OneRun

Spec == Init /\ [][Next]_vars

(***************************************************************************)
(* The load and the merge on their own (main.rs 178-199), over archives    *)
(* and fetch results of more records: four records tied on created_at and  *)
(* three distinct timestamps.  get_statuses is taken by its return value.  *)
(***************************************************************************)
MaxFetched == 2   \* records get_statuses returns
MergeRecs == {Rec(1, 1), Rec(2, 1), Rec(3, 1), Rec(4, 1), Rec(5, 2), Rec(6, 3)}

InitMerge ==
    /\ file_arg = TRUE
    /\ update_in_place = FALSE
    /\ disk \in {File("array", rs) : rs \in SeqsUpTo(MergeRecs, MaxArchive)}
    /\ disk0 = disk
    /\ stdout = File("empty", <<>>)
    /\ pc = "load"
    /\ err = ""
    /\ statuses = <<>>
    /\ max_id = NoneV
    /\ has_more = FALSE
    /\ url = <<>>
    /\ params = <<>>
    /\ dir = ""
    /\ result = <<>>
    /\ hdr = NoneV
    /\ requests = <<>>
    /\ followed = <<>>
    /\ served = <<>>
    /\ events = <<>>
    /\ answers = <<>>
    /\ prior = NoneV

\* get_statuses (106-156) returns Ok(result): the records of the pages it
\* was served, in the order received
Fetched ==
    /\ pc = "call"
    /\ \E fetched \in SeqsUpTo(MergeRecs, MaxFetched) :
          /\ result' = fetched
          /\ served' = fetched
    /\ dir' = InitDir(max_id)
    /\ pc' = "merge"
    /\ UNCHANGED <<file_arg, update_in_place, disk, disk0, stdout, err, statuses,
                   max_id, has_more, url, params, hdr, requests, followed, events>>

NextMerge ==
    \/ LoadArchive /\ OneRun
    \/ Fetched /\ OneRun
    \/ Merge /\ OneRun

SpecMerge == InitMerge /\ [][NextMerge]_vars

(***************************************************************************)
(* Two full-fetch runs, one after the other, against a remote that does    *)
(* not change: a request that was answered before gets the same Link       *)
(* header and the same body again.                                         *)
(***************************************************************************)
InitTwice == Init /\ ~file_arg /\ ~update_in_place

LastRequest == requests[Len(requests)]
AnsweredBefore(req) == {k \in 1..Len(answers) : answers[k].req = req}

\* the response to the request just sent (132-139), from the unchanged remote
Answered ==
    IF pc' = "body"
    THEN /\ \A k \in AnsweredBefore(LastRequest') : answers[k].hdr = hdr'
         /\ answers' = Append(answers, [req |-> LastRequest', hdr |-> hdr', page |-> NoneV])
    ELSE answers' = answers

\* the body of that response (151-152), from the unchanged remote
BodyAnswered ==
    LET page == IF pc' = "failed"
                THEN File(err', <<>>)
                ELSE File("array", SubSeq(served', Len(served) + 1, Len(served')))
    IN  /\ \A k \in AnsweredBefore(LastRequest) :
              answers[k].page.some => answers[k].page.val = page
        /\ answers' = [answers EXCEPT ![Len(answers)].page = Some(page)]

\* the program is started again once its first run has printed its archive
RunAgain ==
    /\ pc = "done"
    /\ ~prior.some
    /\ prior' = Some(stdout)
    /\ stdout' = File("empty", <<>>)
    /\ pc' = "token"
    /\ err' = ""
    /\ statuses' = <<>>
    /\ max_id' = NoneV
    /\ has_more' = FALSE
    /\ url' = <<>>
    /\ params' = <<>>
    /\ dir' = ""
    /\ result' = <<>>
    /\ hdr' = NoneV
    /\ requests' = <<>>
    /\ followed' = <<>>
    /\ served' = <<>>
    /\ events' = <<>>
    /\ UNCHANGED <<file_arg, update_in_place, disk, disk0, answers>>

NextTwice ==
    \/ GetAccessToken /\ OneRun
    \/ GetAccountId /\ OneRun
    \/ LoadArchive /\ OneRun
    \/ GetStatusesInit /\ OneRun
    \/ SendRequest /\ Answered /\ UNCHANGED prior
    \/ ReadBody /\ BodyAnswered /\ UNCHANGED prior
    \/ Merge /\ OneRun
    \/ OpenWriter /\ OneRun
    \/ ToWriter /\ OneRun
    \/ RunAgain

SpecTwice == InitTwice /\ [][NextTwice]_vars

(***************************************************************************)
(* Vocabulary of the properties.                                           *)
(***************************************************************************)
SortedAscending(s) ==
    \A i \in 1..Len(s), j \in 1..Len(s) : i < j => s[i].created_at <= s[j].created_at
UniqueIds(s) ==
    \A i \in 1..Len(s), j \in 1..Len(s) :
        (i # j /\ s[i].id # Missing) => s[i].id # s[j].id
Occurrences(r, s) == Cardinality({i \in 1..Len(s) : s[i] = r})
SameRecords(s, t) ==
    /\ Len(s) = Len(t)
    /\ \A i \in 1..Len(s) : Occurrences(s[i], s) = Occurrences(s[i], t)
WellFormed(s) ==
    \A i \in 1..Len(s) : s[i].id # Missing /\ s[i].created_at # Missing

\* E, the records of the archive file as the run found it
Existing == IF file_arg /\ disk0.kind = "array" THEN disk0.recs ELSE <<>>
\* main holds the sorted archive it hands to the writer
HandedToWriter == pc \in {"towriter", "done"}
\* the merge has run and nothing has been written yet
Merged == pc = "open"

\* C1: after every successful run the archive handed to the writer is sorted
\* ascending by created_at and no two of its records share an id (stated for
\* an archive file whose own ids are unique)
C1_SortedAndUnique ==
    (HandedToWriter /\ UniqueIds(Existing))
        => (SortedAscending(statuses) /\ UniqueIds(statuses))

\* every record of F is strictly newer than every record of E
StrictlyNewer(F, E) ==
    /\ \A i \in 1..Len(F) : F[i].created_at # Missing
    /\ \A j \in 1..Len(E) : E[j].created_at # Missing
    /\ \A i \in 1..Len(F), j \in 1..Len(E) : F[i].created_at > E[j].created_at

OtherDir(d) == IF d = "next" THEN "prev" ELSE "next"
LinkParts(h) == LET parts == Split(h, ",") IN {parts[i] : i \in 1..Len(parts)}
HasRelParam(part, d) ==
    \E i \in 2..Len(part) : part[i] = RelTok(d) /\ part[i - 1] \in {";", " "}
\* the URLs of the header's links of relation d
RelUrls(h, d) ==
    {SegmentUrl(part).val : part \in {q \in LinkParts(h) : HasRelParam(q, d) /\ SegmentUrl(q).some}}
\* the literal rel="d" occurs in the header only as a rel parameter
LiteralOnlyAsRel(h, d) ==
    \A part \in LinkParts(h) :
        \A i \in 1..Len(part) :
            part[i] = RelTok(d) => (i > 1 /\ part[i - 1] \in {";", " "})
\* the loop has just taken a link from the response held in hdr
JustFollowed == pc = "body" /\ has_more
LastFollowed == followed[Len(followed)]

\* C3 as claimed: with a resume cursor every followed link is the rel="prev"
\* link of its response, without one the rel="next" link, at every page
C3_Original ==
    JustFollowed
        => /\ dir = (IF max_id.some THEN "prev" ELSE "next")
           /\ LastFollowed \in RelUrls(hdr.val, dir)

\* C3 amended: the relation followed is prev with a resume cursor and next
\* without; every followed link is the URL of a segment that holds the literal
\* rel="<relation>", and it is the link of that relation whenever the literal
\* occurs in the header only as a rel parameter
C3_FollowsActiveRelation ==
    JustFollowed
        => /\ dir = (IF max_id.some THEN "prev" ELSE "next")
           /\ \E part \in LinkParts(hdr.val) :
                 /\ Contains(part, RelTok(dir))
                 /\ SegmentUrl(part) = Some(LastFollowed)
           /\ LiteralOnlyAsRel(hdr.val, dir) => LastFollowed \in RelUrls(hdr.val, dir)
           /\ url = SubSeq(LastFollowed, Len(HOST) + 1, Len(LastFollowed))

\* a later page of a resumed walk, whose header carries both relations with
\* different URLs
C3_Witness ==
    /\ JustFollowed
    /\ max_id.some
    /\ Len(requests) = 2
    /\ hdr = Some(Join2(SegNext, SegPrev))
    /\ LastFollowed = U2

\* the response held in hdr has no link of the active relation
NoActiveLink == ~hdr.some \/ ~Contains(hdr.val, RelTok(dir))
AfterFetch == pc \in {"merge", "open", "towriter", "done"}

\* C4: a successful response with no link of the active relation ends the
\* pagination: the page's records are appended to the result, the fetch
\* returns, and no request is issued from then on
C4_NoLinkEndsPagination ==
    [][/\ (pc = "body" /\ NoActiveLink) => ~has_more
       /\ (pc = "body" /\ NoActiveLink /\ pc' # "failed")
             => /\ pc' = "merge"
                /\ result' = result \o SubSeq(served', Len(served) + 1, Len(served'))
                /\ requests' = requests
       /\ AfterFetch => (requests' = requests /\ result' = result)]_vars

\* the walk ended on a non-empty first page that carried no link of the
\* active relation
C4_Witness ==
    /\ pc = "merge"
    /\ ~has_more
    /\ followed = <<>>
    /\ Len(requests) = 1
    /\ result # <<>>

CountEvents(e) == Cardinality({i \in 1..Len(events) : events[i] = e})
FetchErrors == {"transport_error", "http_status", "body_json", "body_not_array"}
Loaded == IF file_arg THEN LoadedStatuses(disk0.recs) ELSE <<>>

\* C5: when a request of the fetch fails (transport, HTTP status, or a body
\* that is no JSON array) main receives none of the records accumulated, the
\* failing request is the last thing the run did, the archive file is not
\* opened for writing and nothing is written
C5_FailedFetchWritesNothing ==
    (pc = "failed" /\ err \in FetchErrors)
        => /\ statuses = Loaded
           /\ disk = disk0
           /\ stdout = File("empty", <<>>)
           /\ \A i \in 1..Len(events) : events[i] \notin {"create", "write"}
           /\ events[Len(events)] = "request"
           /\ CountEvents("request") = Len(requests)
           /\ CountEvents("page") = Len(requests) - 1

\* the second request fails after the first page's records were accumulated
C5_Witness ==
    /\ pc = "failed"
    /\ err = "body_not_array"
    /\ Len(requests) = 2
    /\ result # <<>>
    /\ update_in_place
    /\ Existing # <<>>

\* C6: the archive file holds its complete previous content or the complete
\* new archive, never a truncated or partly written one (stated of the states
\* in which a run over a non-empty, well-formed archive has ended, which the
\* claim's states include)
C6_NoPartialArchive ==
    (pc \in {"done", "failed"} /\ Existing # <<>> /\ WellFormed(Existing))
        => (disk = disk0 \/ disk = File("array", statuses))

\* the archive file cannot be opened, is no JSON array, or has a record
\* without a string created_at or id
Malformed(f) == f.kind # "array" \/ ~WellFormed(f.recs)

\* C7: with an unreadable or malformed archive file the run fails before any
\* statuses request and never writes the file
C7_MalformedArchiveAborts ==
    (file_arg /\ Malformed(disk0))
        => /\ requests = <<>>
           /\ disk = disk0

\* the run has got as far as loading the archive
ConfigErrors == {"token_http_error", "token_no_field", "no_credentials",
                 "unprocessable", "account_http_error", "no_id"}
LoadErrors == {"open", "archive_json", "archive_not_array", "archive_created_at",
               "archive_id"}
PastLoad ==
    /\ pc \notin {"token", "account", "load"}
    /\ pc = "failed" => err \notin ConfigErrors

\* the load has succeeded and the merge has not run: statuses is what the
\* loader yielded
LoadDone == pc \in {"call", "send", "body", "merge"}
Fetching == pc \in {"send", "body", "merge"}
FullFetch ==
    /\ max_id = NoneV
    /\ LoadDone => statuses = <<>>
    /\ Fetching => dir = "next"
    /\ \A i \in 1..Len(requests) : requests[i].params = <<>>

\* C8 as claimed: without an archive path, or when the run is not in
\* update-in-place mode, the loader yields an empty set and no cursor and the
\* fetch goes without since_id along next links (stated of runs whose archive
\* file, if any, is well-formed)
C8_Original ==
    ((~file_arg \/ ~update_in_place) /\ (file_arg => ~Malformed(disk0)))
        => FullFetch

\* C8 amended: without an archive path the loader yields an empty set and no
\* cursor, the file is not read, and the fetch goes without since_id along
\* next links; with a path the file is loaded whatever the update-in-place
\* flag, and a non-empty archive gives a cursor
C8_NoPathIsFullFetch ==
    /\ ~file_arg => (FullFetch /\ CountEvents("read") = 0)
    /\ (file_arg /\ LoadDone)
          => /\ CountEvents("read") = 1
             /\ SameRecords(statuses, disk0.recs)
             /\ max_id.some <=> disk0.recs # <<>>

C8_Witness ==
    /\ ~file_arg
    /\ update_in_place
    /\ pc = "body"
    /\ Len(requests) = 2
    /\ dir = "next"

\* C9: an archive file holding an empty array does not fail the load; it
\* yields an empty set and no cursor, and the run proceeds as a full fetch
C9_EmptyArchiveIsFullFetch ==
    (file_arg /\ disk0 = File("array", <<>>) /\ PastLoad)
        => /\ FullFetch
           /\ pc = "failed" => err \notin LoadErrors
           /\ events # <<>> /\ events[1] = "read"

C9_Witness ==
    /\ file_arg
    /\ disk0 = File("array", <<>>)
    /\ pc = "body"
    /\ Len(requests) = 1
    /\ requests[1] = [url |-> HOST \o STATUSES_PATH, params |-> <<>>]
    /\ dir = "next"

\* an incremental run over a well-formed archive
Incremental == file_arg /\ disk0.kind = "array" /\ disk0.recs # <<>> /\ WellFormed(disk0.recs)

\* C10: in an incremental run over a well-formed archive E whose server
\* answers with pages P1..Pn linked by rel="prev", n requests are issued: the
\* first to the statuses path with since_id = the cursor, each later one to
\* the URL of the link taken from the page before; the final archive holds
\* the records of E and of every Pi, each as often as supplied, in ascending
\* created_at order
C10_IncrementalChain ==
    (Incremental /\ PastLoad)
        => /\ pc = "failed" => err \in FetchErrors \cup {"create", "write"}
           /\ max_id.some /\ \E i \in 1..Len(disk0.recs) : disk0.recs[i].id = max_id.val
           /\ Len(disk0.recs) = 1 => max_id.val = disk0.recs[1].id
           /\ Fetching => dir = "prev"
           /\ requests # <<>> =>
                 requests[1] = [url |-> HOST \o STATUSES_PATH,
                                params |-> <<<<"since_id", max_id.val>>>>]
           /\ \A k \in 2..Len(requests) :
                 requests[k] = [url |-> followed[k - 1], params |-> <<>>]
           /\ Len(followed) \in {Len(requests) - 1, Len(requests)}
           /\ pc \in {"open", "towriter", "done"} =>
                 /\ Len(requests) = CountEvents("page")
                 /\ Len(followed) = Len(requests) - 1
                 /\ SameRecords(statuses, disk0.recs \o served)
                 /\ SortedAscending(statuses)
           /\ (pc = "done" /\ update_in_place /\ disk.kind = "array") => disk.recs = statuses

\* archive {1}, pages {2} -> {2} linked by prev, written in place
C10_Witness ==
    /\ Incremental
    /\ pc = "done"
    /\ update_in_place
    /\ disk0.recs = <<Rec(1, 1)>>
    /\ max_id = Some(1)
    /\ Len(requests) = 2
    /\ followed = <<U2>>
    /\ served = <<Rec(2, 2), Rec(2, 2)>>
    /\ disk = File("array", <<Rec(1, 1), Rec(2, 2), Rec(2, 2)>>)


\* the created_at values of the archive file's records
ArchiveTimes == {disk0.recs[i].created_at : i \in 1..Len(disk0.recs)}


\* C11: two full-fetch runs (no archive file, no cursor) against the same
\* unchanged remote print identical archives: the same records in the same
\* order
C11_FullFetchIdempotent ==
    (prior.some /\ pc = "done")
        => /\ stdout = File("array", statuses)
           /\ stdout = prior.val
           /\ max_id = NoneV
           /\ \A k \in 1..Len(requests) : requests[k].params = <<>>

\* the second run has printed the archive of a two-page chain served newest
\* first
C11_Witness ==
    /\ prior.some
    /\ pc = "done"
    /\ Len(requests) = 2
    /\ served = <<Rec(2, 2), Rec(1, 1)>>
    /\ stdout = File("array", <<Rec(1, 1), Rec(2, 2)>>)

Reverse(s) == [i \in 1..Len(s) |-> s[Len(s) + 1 - i]]
DistinctTimes(s) ==
    \A i \in 1..Len(s), j \in 1..Len(s) : i # j => s[i].created_at # s[j].created_at
\* what the run hands on when the file holds e and the fetch returns f
Output(e, f) == merge(LoadedStatuses(e), f)
\* f received as two pages, the first of k records, each page reversed
PagesReversed(f, k) == Reverse(SubSeq(f, 1, k)) \o Reverse(SubSeq(f, k + 1, Len(f)))

\* C12: when the created_at values of the existing and the fetched records
\* are pairwise distinct, the merged output is the one strictly ascending
\* arrangement of those records, and it is the same when the file's records,
\* the fetched records, both, or the contents of each page are reversed
C12_OrderIndependent ==
    (Merged /\ WellFormed(Existing \o result) /\ DistinctTimes(Existing \o result))
        => /\ SameRecords(statuses, Existing \o result)
           /\ \A i \in 1..(Len(statuses) - 1) :
                 statuses[i].created_at < statuses[i + 1].created_at
           /\ statuses = Output(Reverse(Existing), result)
           /\ statuses = Output(Existing, Reverse(result))
           /\ statuses = Output(Reverse(Existing), Reverse(result))
           /\ \A k \in 0..Len(result) : statuses = Output(Existing, PagesReversed(result, k))

\* the fetch returns newest first and around the file's record; every
\* timestamp is distinct
C12_Witness ==
    /\ Merged
    /\ Existing = <<Rec(5, 2)>>
    /\ result = <<Rec(6, 3), Rec(1, 1)>>
    /\ statuses = <<Rec(1, 1), Rec(5, 2), Rec(6, 3)>>

\* C13: for a non-empty well-formed archive, whatever the order of the file,
\* the cursor is the id of a record of the file whose created_at is the
\* maximum over the file, and it is the since_id of the first request
C13_CursorIsNewest ==
    (Incremental /\ PastLoad)
        => /\ max_id.some
           /\ \E i \in 1..Len(disk0.recs) :
                 /\ disk0.recs[i].id = max_id.val
                 /\ \A t \in ArchiveTimes : t <= disk0.recs[i].created_at
           /\ requests # <<>> => requests[1].params = <<<<"since_id", max_id.val>>>>

\* the newest record is the last of the file; the first request has gone out
C13_Witness ==
    /\ disk0 = File("array", <<Rec(1, 1), Rec(2, 2)>>)
    /\ file_arg
    /\ max_id = Some(2)
    /\ requests = <<[url |-> HOST \o STATUSES_PATH, params |-> <<<<"since_id", 2>>>>]>>

\* C14: when the run resumes, since_id is sent on the first request only;
\* every request whose URL came from a followed link has an empty parameter
\* list, and every request after the first is such a request; when the run
\* does not resume, no request carries a parameter
C14_SinceIdOnFirstOnly ==
    \A k \in 1..Len(requests) :
        /\ requests[k].params = (IF k = 1 /\ max_id.some
                                 THEN <<<<"since_id", max_id.val>>>>
                                 ELSE <<>>)
        /\ requests[k].url = (IF k = 1 THEN HOST \o STATUSES_PATH ELSE followed[k - 1])

\* a resumed walk has sent its second request
C14_Witness ==
    /\ max_id.some
    /\ Len(requests) = 2
    /\ requests[1].params = <<<<"since_id", max_id.val>>>>
    /\ requests[2] = [url |-> U2, params |-> <<>>]

\* the positions of the log at which the archive file is read / written
\* (File::create truncates it; to_writer_pretty fills it in update-in-place
\* mode, and goes to standard output otherwise)
FileReads == {i \in 1..Len(events) : events[i] = "read"}
FileCreates == {i \in 1..Len(events) : events[i] = "create"}
FileWrites == {i \in 1..Len(events) : events[i] = "write" /\ update_in_place}
NetworkEvents == {i \in 1..Len(events) : events[i] \in {"request", "page"}}
\* every request of the fetch was answered, the last answer had no link to
\* follow, and the merge has run on the loaded and the fetched records
FetchAndMergeDone ==
    /\ requests # <<>>
    /\ CountEvents("page") = Len(requests)
    /\ ~has_more
    /\ SameRecords(statuses, Existing \o served)
    /\ SortedAscending(statuses)

\* C15: the archive file is read at most once and written at most once in a
\* run; the read comes before every statuses request, the write comes only
\* after the whole fetch and the merge have succeeded, and no read follows
\* the write
C15_ReadOnceWriteOnce ==
    /\ Cardinality(FileReads) <= 1
    /\ Cardinality(FileCreates) <= 1
    /\ Cardinality(FileWrites) <= 1
    /\ \A i \in FileReads : \A j \in 1..Len(events) : j # i => i < j
    /\ \A i \in FileCreates \cup FileWrites :
          \A j \in FileReads \cup NetworkEvents : j < i
    /\ \A i \in FileWrites : \A j \in FileCreates : j < i
    /\ (FileCreates # {} \/ disk # disk0) => FetchAndMergeDone
    /\ ~file_arg => (FileReads = {} /\ FileCreates = {} /\ FileWrites = {})

\* an update-in-place run over an archive, two pages fetched, file written
C15_Witness ==
    /\ pc = "done"
    /\ disk0.recs # <<>>
    /\ served # <<>>
    /\ disk = File("array", statuses)
    /\ events = <<"read", "request", "page", "request", "page", "create", "write">>

\* the comma-separated segments of the response's Link header; none when the
\* header is absent or is not text
Segments == IF hdr.some /\ ToStrOk(hdr.val) THEN Split(hdr.val, ",") ELSE <<>>
\* the segment's first semicolon-separated token, without surrounding blanks
FirstToken(seg) == Trim(Head(Split(seg, ";")))
Bracketed(tok) == Len(tok) >= 2 /\ tok[1] = "<" /\ tok[Len(tok)] = ">"
\* the segments that hold the active relation's literal and start with an
\* angle-bracketed URL
GoodSegments ==
    {i \in 1..Len(Segments) :
        Contains(Segments[i], RelTok(dir)) /\ Bracketed(FirstToken(Segments[i]))}
FirstGood == CHOOSE i \in GoodSegments : \A j \in GoodSegments : i <= j
Unbracket(tok) == SubSeq(tok, 2, Len(tok) - 1)

\* C16: a Link header in which no segment both carries the active relation
\* and starts with an angle-bracketed URL (no rel attribute, only the other
\* relation, or a matching segment whose first token is bare) yields no
\* cursor: has_more is false, the step that follows takes the page and
\* returns from the fetch without error (unless the body itself is no JSON
\* array) and without a further request; otherwise the URL followed is that
\* of the first segment that matches and is well-formed
C16_IrregularLinkStops ==
    /\ [](pc = "body" =>
             /\ has_more <=> GoodSegments # {}
             /\ GoodSegments # {} =>
                   LastFollowed = Unbracket(FirstToken(Segments[FirstGood]))
             /\ GoodSegments = {} => Len(followed) = Len(requests) - 1
             /\ err = "")
    /\ [][(pc = "body" /\ ~has_more)
             => \/ pc' = "failed" /\ err' \in {"body_json", "body_not_array"}
                \/ /\ pc' = "merge"
                   /\ err' = ""
                   /\ requests' = requests
                   /\ result' = result \o SubSeq(served', Len(served) + 1, Len(served'))]_vars

\* the only matching segment of the first response has a bare first token:
\* no link was taken from it
C16_Witness ==
    /\ pc = "body"
    /\ dir = "prev"
    /\ hdr = Some(SegBare)
    /\ ~has_more
    /\ followed = <<>>
    /\ Len(requests) = 1

\* the records of s whose created_at is t, in the order they have in s
Tied(s, t) == SelectSeq(s, LAMBDA r : r.created_at = t)
TimesOf(s) == {s[i].created_at : i \in 1..Len(s)}

\* C17: in the merged archive the records of one created_at value stand in
\* their original order: those of the archive file in file order, then those
\* fetched in the order received
C17_TiesKeepOrder ==
    (Merged /\ WellFormed(Existing \o result))
        => /\ SortedAscending(statuses)
           /\ \A t \in TimesOf(Existing \o result) :
                 Tied(statuses, t) = Tied(Existing, t) \o Tied(result, t)

\* two tied records in the file, two tied records fetched, all four of one
\* timestamp and neither pair in id order
C17_Witness ==
    /\ Merged
    /\ Existing = <<Rec(2, 1), Rec(1, 1)>>
    /\ result = <<Rec(4, 1), Rec(3, 1)>>
    /\ statuses = <<Rec(2, 1), Rec(1, 1), Rec(4, 1), Rec(3, 1)>>

\* the response held in hdr carries a link of the active relation
LinkFound == FollowedLink(hdr, dir).some
RequestedUrls == {requests[k].url : k \in 1..Len(requests)}

\* C18: the loop goes on exactly as long as each successful response carries
\* a link of the active relation, whether or not the linked URL was already
\* requested: one request is issued at the start and one more for each such
\* response, the loop is left only through a response without that link or
\* through a failing request, and the result holds every page served so far;
\* short of the bound MaxReq of the model, the next request can always be sent
C18_LoopEndsOnlyWithoutLink ==
    /\ pc = "send" => (has_more /\ Len(requests) = Len(followed))
    /\ pc = "body" =>
          /\ has_more <=> LinkFound
          /\ Len(requests) = Len(followed) + (IF has_more THEN 0 ELSE 1)
    /\ AfterFetch => (~has_more /\ Len(requests) = 1 + Len(followed))
    /\ (pc = "failed" /\ err \in {"transport_error", "http_status"})
          => Len(requests) = 1 + Len(followed)
    /\ (pc = "failed" /\ err \in {"body_json", "body_not_array"})
          => Len(requests) = Len(followed) + (IF has_more THEN 0 ELSE 1)
    /\ pc \in {"send", "body", "merge"} => result = served
    /\ (pc = "send" /\ Len(requests) < MaxReq) => ENABLED SendRequest

\* a cycle: the page at U2 links to U2 again, and the loop, holding the
\* records of both pages, is about to request it a second time
C18_Witness ==
    /\ pc = "send"
    /\ has_more
    /\ Len(requests) = MaxReq
    /\ HOST \o url \in RequestedUrls
    /\ Len(result) = MaxReq * MaxPage

\* C19: with a file path and without the update-in-place flag the run loads
\* the file and (when the load yields records) resumes from its cursor, the
\* file's content is the same in
\* every state of the run, and the merged result goes to standard output only
C19_FileReadOnlyWithoutFlag ==
    (file_arg /\ ~update_in_place)
        => /\ disk = disk0
           /\ FileCreates = {}
           /\ PastLoad => events[1] = "read"
           /\ (PastLoad /\ disk0.recs # <<>> /\ ~(pc = "failed" /\ err \in LoadErrors))
                 => /\ max_id.some
                    /\ Fetching => dir = "prev"
                    /\ requests # <<>> =>
                          requests[1].params = <<<<"since_id", max_id.val>>>>
           /\ pc = "done" =>
                 /\ stdout = File("array", statuses)
                 /\ SameRecords(statuses, disk0.recs \o served)
           /\ pc # "done" => stdout \in {File("empty", <<>>), Truncated}

\* a resumed run without the flag has printed the merged archive
C19_Witness ==
    /\ file_arg
    /\ ~update_in_place
    /\ pc = "done"
    /\ disk0 = File("array", <<Rec(1, 1)>>)
    /\ disk = disk0
    /\ served = <<Rec(2, 2)>>
    /\ stdout = File("array", <<Rec(1, 1), Rec(2, 2)>>)

\* C20: with update-in-place and no file path the missing path is met only
\* at the write step: the run is a full fetch, it fails for the missing path
\* only after every page was requested and received and the merge has run,
\* it never gets to the output step, and in no state has it written to a
\* file or to standard output
C20_MissingPathFailsAtWrite ==
    (update_in_place /\ ~file_arg)
        => /\ FullFetch
           /\ pc \notin {"towriter", "done"}
           /\ stdout = File("empty", <<>>)
           /\ disk = disk0
           /\ \A i \in 1..Len(events) : events[i] \in {"request", "page"}
           /\ (pc = "failed" /\ err = "no_file")
                 => /\ requests # <<>>
                    /\ CountEvents("page") = Len(requests)
                    /\ Len(followed) = Len(requests) - 1
                    /\ ~has_more
                    /\ statuses = merge(<<>>, served)

\* both pages of a two-page walk were fetched before the run failed
C20_Witness ==
    /\ update_in_place
    /\ ~file_arg
    /\ pc = "failed"
    /\ err = "no_file"
    /\ Len(requests) = 2
    /\ Len(statuses) = 2
====
